---- MODULE Spec2Model ----
(***************************************************************************)
(* Model of libagent/device/trezor.py: Trezor.connect() (enumeration,      *)
(* transport open, callback registration, features, firmware version gate, *)
(* unlock ping), close() and the operations pubkey(), sign() and ecdh() on *)
(* the connection.                                                         *)
(***************************************************************************)
EXTENDS Integers, Sequences, FiniteSets, TLC

VARIABLES pc, endpoints, idx, opened, chan, closes, hooks, registered,
          features, pingSent, requests, calls, acks, pingExc, raised, conn,
          opResult, closeCalls, env, Transport, enumBy, openedBy

vars == <<pc, endpoints, idx, opened, chan, closes, hooks, registered,
          features, pingSent, requests, calls, acks, pingExc, raised, conn,
          opResult, closeCalls, env, Transport, enumBy, openedBy>>

connVars == <<pc, endpoints, idx, opened, chan, closes, hooks, registered,
              features, pingSent, requests, calls, acks, pingExc, raised,
              conn>>

\* ---------------------------------------------------------------- bounds
MaxEndpoints == 2
MaxMajor == 2
MaxMinor == 10
MaxPatch == 1
MaxRequests == 2
MaxSeed == 0

\* ------------------------------------------------------------- constants
SignatureLen == 65
NistKeyLen == 65
Curve25519KeyLen == 33

None == "None"

Min(a, b) == IF a < b THEN a ELSE b

\* the endpoints that can be attached, in the transport's enumeration order
Endpoints == <<"hid0", "hid1", "hid2">>

\* Transport.enumerate(): the attached endpoints, a finite sequence of
\* distinct endpoints
EndpointLists ==
    {SubSeq(Endpoints, 1, n) : n \in 0..Min(MaxEndpoints, Len(Endpoints))}

\* ------------------------------------------------------ version strings
\* Python strings are sequences of one-character strings.
Digits == <<"0", "1", "2", "3", "4", "5", "6", "7", "8", "9">>

RECURSIVE FormatInt(_)
\* '{}'.format(n) for a non-negative integer n
FormatInt(n) ==
    IF n < 10 THEN <<Digits[n + 1]>>
    ELSE FormatInt(n \div 10) \o <<Digits[(n % 10) + 1]>>

\* '{}.{}.{}'.format(f.major_version, f.minor_version, f.patch_version)
FormatVersion(f) ==
    FormatInt(f.major) \o <<".">> \o FormatInt(f.minor) \o <<".">>
        \o FormatInt(f.patch)

\* required_version = '>=1.4.0'
required_version == <<">", "=", "1", ".", "4", ".", "0">>

DigitValue(c) == CHOOSE d \in 0..9 : Digits[d + 1] = c

RECURSIVE ParseInt(_)
\* int(s) for a non-empty string of decimal digits
ParseInt(s) ==
    IF Len(s) = 1 THEN DigitValue(s[1])
    ELSE 10 * ParseInt(SubSeq(s, 1, Len(s) - 1)) + DigitValue(s[Len(s)])

\* index of the first "." of s at or after position i (Len(s)+1 if none)
RECURSIVE FindDot(_, _)
FindDot(s, i) ==
    IF i > Len(s) THEN Len(s) + 1
    ELSE IF s[i] = "." THEN i
    ELSE FindDot(s, i + 1)

\* semver.parse(version): the numeric fields of 'major.minor.patch'
SemverParse(s) ==
    LET d1 == FindDot(s, 1)
        d2 == FindDot(s, d1 + 1)
    IN  [major |-> ParseInt(SubSeq(s, 1, d1 - 1)),
         minor |-> ParseInt(SubSeq(s, d1 + 1, d2 - 1)),
         patch |-> ParseInt(SubSeq(s, d2 + 1, Len(s)))]

\* Python's cmp(a, b)
Cmp(a, b) == IF a < b THEN -1 ELSE IF a > b THEN 1 ELSE 0

\* variant of SemverCompare: greater only when no field is smaller
SemverCompareFieldwise(s1, s2) ==
    LET v1 == SemverParse(s1)
        v2 == SemverParse(s2)
    IN  IF v1 = v2 THEN 0
        ELSE IF /\ v1.major >= v2.major
                /\ v1.minor >= v2.minor
                /\ v1.patch >= v2.patch
        THEN 1
        ELSE -1

\* semver.compare(ver1, ver2): first differing field of major, minor, patch
SemverCompare(s1, s2) ==
    LET v1 == SemverParse(s1)
        v2 == SemverParse(s2)
    IN  IF Cmp(v1.major, v2.major) # 0 THEN Cmp(v1.major, v2.major)
        ELSE IF Cmp(v1.minor, v2.minor) # 0 THEN Cmp(v1.minor, v2.minor)
        ELSE Cmp(v1.patch, v2.patch)

\* the comparison outcomes each operator of a match expression accepts
Possibilities(prefix) ==
    CASE prefix = <<">">> -> {1}
      [] prefix = <<"<">> -> {-1}
      [] prefix = <<"=", "=">> -> {0}
      [] prefix = <<"!", "=">> -> {-1, 1}
      [] prefix = <<">", "=">> -> {0, 1}
      [] prefix = <<"<", "=">> -> {-1, 0}

\* semver.match(version, match_expr)
SemverMatch(version, match_expr) ==
    LET two == SubSeq(match_expr, 1, 2)
        long == two \in {<<">", "=">>, <<"<", "=">>, <<"=", "=">>,
                         <<"!", "=">>}
        prefix == IF long THEN two ELSE SubSeq(match_expr, 1, 1)
        match_version == IF long
                         THEN SubSeq(match_expr, 3, Len(match_expr))
                         ELSE SubSeq(match_expr, 2, Len(match_expr))
    IN  SemverCompare(version, match_version) \in Possibilities(prefix)

\* the device features connect() reads: the firmware version triple
Features ==
    [major : 0..MaxMajor, minor : 0..MaxMinor, patch : 0..MaxPatch]

\* f before line 66 has assigned it
NoFeatures == [major |-> -1, minor |-> -1, patch |-> -1]

\* ---------------------------------------------------------- exceptions
\* Classes below BaseException but not below Exception.
BaseOnly == {"KeyboardInterrupt", "SystemExit"}

\* isinstance(e, Exception), the filter of `except Exception`
IsException(cls) == cls \notin BaseOnly

Exc(cls) == [cls |-> cls, required |-> <<>>, current |-> <<>>]

\* no exception
NoExc == Exc(None)

\* ValueError(fmt.format(self, self.required_version, current_version))
FirmwareError(current) ==
    [cls |-> "ValueError", required |-> SubSeq(required_version, 1,
                                               Len(required_version)),
     current |-> current]

\* what a failing device or transport raises out of a client call
DeviceExcs == {"CallException", "PinException", "IOError"}

\* ------------------------------------------------------------- handlers
Slots == {"PassphraseRequest", "PinMatrixRequest"}

\* the attribute values of a fresh Client, before connect() assigns them
ClientDefaults ==
    [s \in Slots |-> IF s = "PinMatrixRequest"
                     THEN "callback_PinMatrixRequest"
                     ELSE "callback_PassphraseRequest"]

\* create_pin_handler(conn): the CLI handler on a tty, else the Qt dialog
create_pin_handler(isatty) ==
    IF isatty THEN "callback_PinMatrixRequest" ELSE "qt_handler"

\* the Ack type each handler returns
AckOf(handler) ==
    CASE handler = "passphrase_handler" -> "PassphraseAck"
      [] handler = "callback_PassphraseRequest" -> "PassphraseAck"
      [] handler = "qt_handler" -> "PinMatrixAck"
      [] handler = "callback_PinMatrixRequest" -> "PinMatrixAck"

\* lines 35, 56: the handlers defined in connect() build their Ack through
\* self._defs; the client's own CLI handler does not
UsesDefs(handler) == handler \in {"passphrase_handler", "qt_handler"}

\* what a handler can raise instead of returning its Ack: the Qt handler
\* imports PyQt5 on each call, the CLI handler reads the terminal
HandlerExcs(handler) ==
    CASE handler = "qt_handler" -> {"ImportError"}
      [] handler = "callback_PinMatrixRequest" -> {"KeyboardInterrupt"}
      [] OTHER -> {}

\* the values of os.environ.get('TREZOR_TRANSPORT'): unset, 'bridge', other
EnvValues == {None, "bridge", "hid"}

\* lines 18-25: an access of self._defs assigns trezor_defs.Transport from
\* the environment as it is at that moment
DefsTransport(e) ==
    IF e = "bridge" THEN "BridgeTransport" ELSE "HidTransport"

\* no operation has been called on the connection yet
NoReply == [type |-> None, msg |-> "", data |-> <<>>]

NoOp ==
    [op |-> None, reply |-> NoReply, kind |-> None, value |-> <<>>,
     cls |-> None, msg |-> <<>>, identity |-> {}, message |-> {},
     sent |-> FALSE]

Init ==
    /\ pc = "start"
    /\ endpoints = <<>>
    /\ idx = 0
    /\ opened = <<>>
    /\ chan = "none"
    /\ closes = 0
    /\ hooks = ClientDefaults
    /\ registered = {}
    /\ features = NoFeatures
    /\ pingSent = FALSE
    /\ requests = <<>>
    /\ calls = <<>>
    /\ acks = <<>>
    /\ pingExc = NoExc
    /\ raised = NoExc
    /\ conn = None
    /\ opResult = NoOp
    /\ closeCalls = 0
    /\ env \in EnvValues
    /\ Transport = None
    /\ enumBy = None
    /\ openedBy = None

\* os.environ['TREZOR_TRANSPORT'] is set, changed or deleted by the process
SetEnv ==
    /\ \E e \in EnvValues \ {env} : env' = e
    /\ UNCHANGED <<connVars, opResult, closeCalls, Transport, enumBy,
                   openedBy>>

\* line 60: self._defs.Transport.enumerate()
Enumerate ==
    /\ pc = "start"
    /\ Transport' = DefsTransport(env)
    /\ enumBy' = Transport'
    /\ \E l \in EndpointLists : endpoints' = l
    /\ pc' = "for"
    /\ UNCHANGED <<idx, opened, chan, closes, hooks, registered, features,
                   pingSent, requests, calls, acks, pingExc, raised, conn,
                   opResult, closeCalls, env, openedBy>>

\* variant of ForLoop: the exhausted loop falls off the end of connect()
ForLoopReturnsNone ==
    /\ pc = "for"
    /\ IF idx < Len(endpoints)
       THEN /\ idx' = idx + 1
            /\ pc' = "transport"
       ELSE /\ pc' = "done"
            /\ UNCHANGED idx
    /\ UNCHANGED <<endpoints, opened, chan, closes, hooks, registered,
                   features, pingSent, requests, calls, acks, pingExc, raised,
                   conn, opResult,
                   closeCalls, env, Transport, enumBy, openedBy>>

\* lines 60, 87: the for statement takes the next endpoint, or the loop
\* ends and NotFoundError is raised
ForLoop ==
    /\ pc = "for"
    /\ IF idx < Len(endpoints)
       THEN /\ idx' = idx + 1
            /\ pc' = "transport"
            /\ UNCHANGED raised
       ELSE /\ raised' = Exc("NotFoundError")
            /\ pc' = "done"
            /\ UNCHANGED idx
    /\ UNCHANGED <<endpoints, opened, chan, closes, hooks, registered,
                   features, pingSent, requests, calls, acks, pingExc, conn,
                   opResult,
                   closeCalls, env, Transport, enumBy, openedBy>>

\* variant of OpenTransport: a failed open moves on to the next endpoint
OpenTransportFallback ==
    /\ pc = "transport"
    /\ Transport' = DefsTransport(env)
    /\ openedBy' = Transport'
    /\ opened' = Append(opened, endpoints[idx])
    /\ \/ /\ chan' = "open"
          /\ pc' = "client"
       \/ /\ pc' = "for"
          /\ UNCHANGED chan
    /\ UNCHANGED <<endpoints, idx, closes, hooks, registered, features,
                   pingSent, requests, calls, acks, pingExc, raised, conn,
                   opResult, closeCalls, env, enumBy>>

\* line 62: transport = self._defs.Transport(d) opens the endpoint, or
\* raises when the device vanished or is claimed
OpenTransport ==
    /\ pc = "transport"
    /\ Transport' = DefsTransport(env)
    /\ openedBy' = Transport'
    /\ opened' = Append(opened, endpoints[idx])
    /\ \/ /\ chan' = "open"
          /\ pc' = "client"
          /\ UNCHANGED raised
       \/ /\ raised' = Exc("IOError")
          /\ pc' = "done"
          /\ UNCHANGED chan
    /\ UNCHANGED <<endpoints, idx, closes, hooks, registered, features,
                   pingSent, requests, calls, acks, pingExc, conn, opResult,
                   closeCalls, env, enumBy>>

\* line 63: connection = self._defs.Client(transport)
NewClient ==
    /\ pc = "client"
    /\ Transport' = DefsTransport(env)
    /\ hooks' = ClientDefaults
    /\ registered' = {}
    /\ pc' = "register"
    /\ UNCHANGED <<endpoints, idx, opened, chan, closes, features, pingSent,
                   requests, calls, acks, pingExc, raised, conn, opResult,
                   closeCalls, env, enumBy, openedBy>>

\* variant of RegisterCallbacks: the two handlers land in each other's slot
RegisterCallbacksSwapped ==
    /\ pc = "register"
    /\ \E isatty \in BOOLEAN :
          hooks' = [hooks EXCEPT
                      !["PinMatrixRequest"] = "passphrase_handler",
                      !["PassphraseRequest"] = create_pin_handler(isatty)]
    /\ registered' = registered \cup {"PassphraseRequest", "PinMatrixRequest"}
    /\ pc' = "features"
    /\ UNCHANGED <<endpoints, idx, opened, chan, closes, features, pingSent,
                   requests, calls, acks, pingExc, raised, conn, opResult,
                   closeCalls, env, Transport, enumBy, openedBy>>

\* variant of RegisterCallbacks: the PIN handler is never assigned
RegisterPassphraseOnly ==
    /\ pc = "register"
    /\ hooks' = [hooks EXCEPT !["PassphraseRequest"] = "passphrase_handler"]
    /\ registered' = registered \cup {"PassphraseRequest"}
    /\ pc' = "features"
    /\ UNCHANGED <<endpoints, idx, opened, chan, closes, features, pingSent,
                   requests, calls, acks, pingExc, raised, conn, opResult,
                   closeCalls, env, Transport, enumBy, openedBy>>

\* lines 64-65: both callback attributes are assigned; the PIN handler
\* depends on whether stdin is a terminal
RegisterCallbacks ==
    /\ pc = "register"
    /\ \E isatty \in BOOLEAN :
          hooks' = [hooks EXCEPT
                      !["PassphraseRequest"] = "passphrase_handler",
                      !["PinMatrixRequest"] = create_pin_handler(isatty)]
    /\ registered' = registered \cup {"PassphraseRequest", "PinMatrixRequest"}
    /\ pc' = "features"
    /\ UNCHANGED <<endpoints, idx, opened, chan, closes, features, pingSent,
                   requests, calls, acks, pingExc, raised, conn, opResult,
                   closeCalls, env, Transport, enumBy, openedBy>>

\* line 66: f = connection.features, or the handshake with the device fails
ReadFeatures ==
    /\ pc = "features"
    /\ \/ /\ \E f \in Features : features' = f
          /\ pc' = "gate"
          /\ UNCHANGED raised
       \/ /\ \E cls \in DeviceExcs : raised' = Exc(cls)
          /\ pc' = "done"
          /\ UNCHANGED features
    /\ UNCHANGED <<endpoints, idx, opened, chan, closes, hooks, registered,
                   pingSent, requests, calls, acks, pingExc, conn, opResult,
                   closeCalls, env, Transport, enumBy, openedBy>>

\* variant of VersionGate: an old firmware is logged and let through
VersionGateLogsOnly ==
    /\ pc = "gate"
    /\ pc' = "ping"
    /\ UNCHANGED <<endpoints, idx, opened, chan, closes, hooks, registered,
                   features, pingSent, requests, calls, acks, pingExc, raised,
                   conn, opResult, closeCalls, env, Transport, enumBy,
                   openedBy>>

\* lines 70-79: the firmware version gate
VersionGate ==
    /\ pc = "gate"
    /\ LET current_version == FormatVersion(features)
       IN  IF ~SemverMatch(current_version, required_version)
           THEN /\ raised' = FirmwareError(current_version)
                /\ pc' = "done"
           ELSE /\ pc' = "ping"
                /\ UNCHANGED raised
    /\ UNCHANGED <<endpoints, idx, opened, chan, closes, hooks, registered,
                   features, pingSent, requests, calls, acks, pingExc, conn,
                   opResult,
                   closeCalls, env, Transport, enumBy, openedBy>>

\* line 81: connection.ping(msg='', pin_protection=True) is sent
PingStart ==
    /\ pc = "ping"
    /\ pingSent' = TRUE
    /\ pc' = "unlock"
    /\ UNCHANGED <<endpoints, idx, opened, chan, closes, hooks, registered,
                   features, requests, calls, acks, pingExc, raised, conn,
                   opResult,
                   closeCalls, env, Transport, enumBy, openedBy>>

\* variant of PingExcept: the handler re-raises without closing
PingExceptNoClose(cls) ==
    /\ pingExc' = Exc(cls)
    /\ UNCHANGED <<chan, closes>>
    /\ raised' = Exc(cls)
    /\ pc' = "done"

\* lines 82-85: an exception leaving ping() is caught when it is an
\* Exception: the connection is closed and the exception re-raised; any
\* other BaseException passes the except clause untouched
PingExcept(cls) ==
    /\ pingExc' = Exc(cls)
    /\ IF IsException(cls)
       THEN /\ chan' = "closed"
            /\ closes' = closes + 1
       ELSE UNCHANGED <<chan, closes>>
    /\ raised' = Exc(cls)
    /\ pc' = "done"

\* the request context the device sends: its type and its ordinal
Request(type, n) == [type |-> type, n |-> n]

\* one round of the unlock exchange inside ping(): the device emits a
\* PinMatrixRequest or a PassphraseRequest, the client calls the handler
\* stored in the slot of that type and sends the returned Ack back; a
\* handler that raises ends ping() with that exception
DeviceRequest ==
    /\ pc = "unlock"
    /\ Len(requests) < MaxRequests
    /\ \E type \in Slots :
         LET ctx == Request(type, Len(requests) + 1)
             handler == hooks[type]
         IN  /\ requests' = Append(requests, ctx)
             /\ calls' = Append(calls, [handler |-> handler, ctx |-> ctx])
             /\ \/ /\ acks' = Append(acks, [type |-> AckOf(handler),
                                            n |-> ctx.n])
                   /\ Transport' = IF UsesDefs(handler)
                                   THEN DefsTransport(env)
                                   ELSE Transport
                   /\ UNCHANGED <<pc, chan, closes, pingExc, raised>>
                \/ /\ \E cls \in HandlerExcs(handler) : PingExcept(cls)
                   /\ UNCHANGED <<acks, Transport>>
    /\ UNCHANGED <<endpoints, idx, opened, hooks, registered, features,
                   pingSent, conn, opResult, closeCalls, env, enumBy,
                   openedBy>>

\* line 81: the device answers the ping itself and ping() returns
PingAnswered ==
    /\ pc = "unlock"
    /\ pc' = "return"
    /\ UNCHANGED <<endpoints, idx, opened, chan, closes, hooks, registered,
                   features, pingSent, requests, calls, acks, pingExc, raised,
                   conn, opResult,
                   closeCalls, env, Transport, enumBy, openedBy>>

\* lines 81-85: the device reports a failure, or the transport breaks, and
\* ping() raises
PingFailed ==
    /\ pc = "unlock"
    /\ \E cls \in DeviceExcs : PingExcept(cls)
    /\ UNCHANGED <<endpoints, idx, opened, hooks, registered, features,
                   pingSent, requests, calls, acks, conn, opResult,
                   closeCalls, env, Transport, enumBy, openedBy>>

\* line 86: return connection
Return ==
    /\ pc = "return"
    /\ conn' = "connection"
    /\ pc' = "ready"
    /\ UNCHANGED <<endpoints, idx, opened, chan, closes, hooks, registered,
                   features, pingSent, requests, calls, acks, pingExc, raised,
                   opResult,
                   closeCalls, env, Transport, enumBy, openedBy>>

\* ------------------------------------------------------------ operations
\* Python's s[:n] and s[n:] for n >= 0
SliceTo(s, n) == SubSeq(s, 1, Min(n, Len(s)))

SliceFrom(s, n) == SubSeq(s, n + 1, Len(s))

\* a byte string of the given length and first byte; seed varies the rest
MkBytes(len, first, seed) ==
    [i \in 1..len |-> IF i = 1 THEN first ELSE (seed * 37 + i) % 256]

ReplyLens == {0, 33, 64, 65}

FirstBytes == {0, 1, 4}

Faults == {"cancelled", "not initialized"}

\* what the device answers to a request: a fault, raised by the client as
\* CallException, or a response carrying a byte string
Replies ==
    {[type |-> "CallException", msg |-> m, data |-> <<>>] : m \in Faults}
    \cup
    {[type |-> "response", msg |-> "", data |-> MkBytes(l, b, s)] :
        l \in ReplyLens, b \in FirstBytes, s \in 0..MaxSeed}

\* str(self), the device named in error messages
Self == "Trezor"

\* lines 126, 145: msg = '{} error: {}'.format(self, e)
DeviceErrorMsg(e) == <<Self, " error: ", e>>

Returned(op, reply, value) ==
    [op |-> op, reply |-> reply, kind |-> "return", value |-> value,
     cls |-> None, msg |-> <<>>]

Raised(op, reply, cls, msg) ==
    [op |-> op, reply |-> reply, kind |-> "raise", value |-> <<>>,
     cls |-> cls, msg |-> msg]

\* variant of sign: a device fault propagates as it was raised
signRawFault(reply) ==
    IF reply.type # "response"
    THEN Raised("sign", reply, reply.type, <<>>)
    ELSE LET signature == reply.data
         IN  IF Len(signature) # SignatureLen
             THEN Raised("sign", reply, "AssertionError", <<>>)
             ELSE IF SliceTo(signature, 1) # <<0>>
             THEN Raised("sign", reply, "AssertionError", <<>>)
             ELSE Returned("sign", reply, SliceFrom(signature, 1))

\* variant of sign: the signature is returned with its first byte
signNoStrip(reply) ==
    IF reply.type = "CallException"
    THEN Raised("sign", reply, "DeviceError", DeviceErrorMsg(reply.msg))
    ELSE IF reply.type # "response"
    THEN Raised("sign", reply, reply.type, <<>>)
    ELSE LET signature == reply.data
         IN  IF Len(signature) # SignatureLen
             THEN Raised("sign", reply, "AssertionError", <<>>)
             ELSE IF SliceTo(signature, 1) # <<0>>
             THEN Raised("sign", reply, "AssertionError", <<>>)
             ELSE Returned("sign", reply, signature)

\* variant of sign: the first byte is stripped without being checked
signNoPrefixCheck(reply) ==
    IF reply.type = "CallException"
    THEN Raised("sign", reply, "DeviceError", DeviceErrorMsg(reply.msg))
    ELSE IF reply.type # "response"
    THEN Raised("sign", reply, reply.type, <<>>)
    ELSE LET signature == reply.data
         IN  IF Len(signature) # SignatureLen
             THEN Raised("sign", reply, "AssertionError", <<>>)
             ELSE Returned("sign", reply, SliceFrom(signature, 1))

\* lines 115-128: the outcome of sign() for the device's reply
sign(reply) ==
    IF reply.type = "CallException"
    THEN Raised("sign", reply, "DeviceError", DeviceErrorMsg(reply.msg))
    ELSE IF reply.type # "response"
    THEN Raised("sign", reply, reply.type, <<>>)
    ELSE LET signature == reply.data
         IN  IF Len(signature) # SignatureLen
             THEN Raised("sign", reply, "AssertionError", <<>>)
             ELSE IF SliceTo(signature, 1) # <<0>>
             THEN Raised("sign", reply, "AssertionError", <<>>)
             ELSE Returned("sign", reply, SliceFrom(signature, 1))

\* variant of ecdh: the first byte is stripped as in sign
ecdhStripsPrefix(reply) ==
    IF reply.type = "CallException"
    THEN Raised("ecdh", reply, "DeviceError", DeviceErrorMsg(reply.msg))
    ELSE IF reply.type # "response"
    THEN Raised("ecdh", reply, reply.type, <<>>)
    ELSE LET session_key == reply.data
         IN  IF Len(session_key) \notin {NistKeyLen, Curve25519KeyLen}
             THEN Raised("ecdh", reply, "AssertionError", <<>>)
             ELSE IF SliceTo(session_key, 1) # <<4>>
             THEN Raised("ecdh", reply, "AssertionError", <<>>)
             ELSE Returned("ecdh", reply, SliceFrom(session_key, 1))

\* variant of ecdh: the first byte is checked only for 65-byte keys
ecdhPrefixOnly65(reply) ==
    IF reply.type = "CallException"
    THEN Raised("ecdh", reply, "DeviceError", DeviceErrorMsg(reply.msg))
    ELSE IF reply.type # "response"
    THEN Raised("ecdh", reply, reply.type, <<>>)
    ELSE LET session_key == reply.data
         IN  IF Len(session_key) \notin {NistKeyLen, Curve25519KeyLen}
             THEN Raised("ecdh", reply, "AssertionError", <<>>)
             ELSE IF /\ Len(session_key) = NistKeyLen
                     /\ SliceTo(session_key, 1) # <<4>>
             THEN Raised("ecdh", reply, "AssertionError", <<>>)
             ELSE Returned("ecdh", reply, session_key)

\* lines 135-147: the outcome of ecdh() for the device's reply
ecdh(reply) ==
    IF reply.type = "CallException"
    THEN Raised("ecdh", reply, "DeviceError", DeviceErrorMsg(reply.msg))
    ELSE IF reply.type # "response"
    THEN Raised("ecdh", reply, reply.type, <<>>)
    ELSE LET session_key == reply.data
         IN  IF Len(session_key) \notin {NistKeyLen, Curve25519KeyLen}
             THEN Raised("ecdh", reply, "AssertionError", <<>>)
             ELSE IF SliceTo(session_key, 1) # <<4>>
             THEN Raised("ecdh", reply, "AssertionError", <<>>)
             ELSE Returned("ecdh", reply, session_key)

\* variant of pubkey: the key is returned without its first byte
pubkeyStripped(reply) ==
    IF reply.type # "response"
    THEN Raised("pubkey", reply, reply.type, <<>>)
    ELSE Returned("pubkey", reply, SliceFrom(reply.data, 1))

\* variant of pubkey: a device fault is wrapped as in sign and ecdh
pubkeyWrapsFault(reply) ==
    IF reply.type = "CallException"
    THEN Raised("pubkey", reply, "DeviceError", DeviceErrorMsg(reply.msg))
    ELSE IF reply.type # "response"
    THEN Raised("pubkey", reply, reply.type, <<>>)
    ELSE Returned("pubkey", reply, reply.data)

\* lines 99-102: the outcome of pubkey() for the device's reply; no except
\* clause, so whatever get_public_node raises propagates
pubkey(reply) ==
    IF reply.type # "response"
    THEN Raised("pubkey", reply, reply.type, <<>>)
    ELSE Returned("pubkey", reply, reply.data)

\* ------------------------------------------------------------ identities
\* the field names of the outgoing identity message
KnownFields == {"proto", "user", "host", "port", "path"}

\* an identity is the set of its (name, value) items
Identities ==
    {{<<"host", "example.com">>},
     {<<"proto", "ssh">>, <<"user", "git">>, <<"host", "example.com">>},
     {<<"host", "example.com">>, <<"comment", "laptop">>}}

\* setattr(result, name, value) on the identity message: an unknown field
\* name is rejected
SetFieldRaises(name) ==
    IF name \in KnownFields THEN None ELSE "ProtocolError"

\* variant of identity_proto: names the message does not have are skipped
identity_protoSkipsUnknown(identity) ==
    [raised |-> None,
     message |-> {item \in identity : SetFieldRaises(item[1]) = None}]

\* lines 104-108: _identity_proto sets every item of the identity on a fresh
\* IdentityType; the first setattr that raises ends it
identity_proto(identity) ==
    LET bad == {item \in identity : SetFieldRaises(item[1]) # None}
    IN  IF bad # {}
        THEN [raised |-> SetFieldRaises((CHOOSE item \in bad : TRUE)[1]),
              message |-> {}]
        ELSE [raised |-> None, message |-> identity]

\* ---------------------------------------------------------- the session
MaxCloseCalls == 2

ClosedReply == [type |-> "ClosedSessionError", msg |-> "", data |-> <<>>]

\* a call on the connection: a closed session fails with ClosedSessionError
\* and sends nothing, an open one sends the request and gets the device's
\* reply
SessionReplies(c) == IF c = "closed" THEN {ClosedReply} ELSE Replies

SessionSends(c) == c # "closed"

\* the number of times conn.close() closes the channel: closing a closed
\* channel is safe and does nothing
ChannelCloses(c) == IF c = "open" THEN 1 ELSE 0

\* the record of an operation: its outcome, the identity it was called with,
\* the identity message it built and whether a request went to the device
Op(outcome, identity, message, sent) ==
    [op |-> outcome.op, reply |-> outcome.reply, kind |-> outcome.kind,
     value |-> outcome.value, cls |-> outcome.cls, msg |-> outcome.msg,
     identity |-> identity, message |-> message, sent |-> sent]

HasSession == pc \in {"ready", "closed"}

\* variant of Close: the connection is dropped after the first close
CloseDropsConn ==
    /\ HasSession
    /\ closeCalls < MaxCloseCalls
    /\ closeCalls' = closeCalls + 1
    /\ IF pc = "closed"
       THEN /\ opResult' = Op(Raised("close", NoReply, "AttributeError", <<>>),
                              {}, {}, FALSE)
            /\ UNCHANGED <<chan, closes>>
       ELSE /\ opResult' = Op(Returned("close", NoReply, <<>>), {}, {}, FALSE)
            /\ chan' = "closed"
            /\ closes' = closes + ChannelCloses(chan)
    /\ pc' = "closed"
    /\ UNCHANGED <<endpoints, idx, opened, hooks, registered, features,
                   pingSent, requests, calls, acks, pingExc, raised, conn,
                   env, Transport, enumBy, openedBy>>

\* lines 89-91: close() calls self.conn.close(), every time it is called
Close ==
    /\ HasSession
    /\ closeCalls < MaxCloseCalls
    /\ closeCalls' = closeCalls + 1
    /\ opResult' = Op(Returned("close", NoReply, <<>>), {}, {}, FALSE)
    /\ chan' = "closed"
    /\ closes' = closes + ChannelCloses(chan)
    /\ pc' = "closed"
    /\ UNCHANGED <<endpoints, idx, opened, hooks, registered, features,
                   pingSent, requests, calls, acks, pingExc, raised, conn,
                   env, Transport, enumBy, openedBy>>

\* lines 93-102: pubkey() on the connection connect() returned
Pubkey ==
    /\ HasSession
    /\ \E identity \in Identities, reply \in SessionReplies(chan) :
          opResult' = Op(pubkey(reply), identity, {}, SessionSends(chan))
    /\ UNCHANGED <<connVars, closeCalls, env, Transport, enumBy, openedBy>>

\* variant of Sign: a failed call closes the connection
SignClosesOnFailure ==
    /\ HasSession
    /\ Transport' = DefsTransport(env)
    /\ \E identity \in Identities :
         LET proto == identity_proto(identity)
         IN  IF proto.raised # None
             THEN opResult' = Op(Raised("sign", NoReply, proto.raised, <<>>),
                                 identity, {}, FALSE)
             ELSE \E reply \in SessionReplies(chan) :
                     opResult' = Op(sign(reply), identity, proto.message,
                                    SessionSends(chan))
    /\ IF opResult'.kind = "raise"
       THEN chan' = "closed" /\ closes' = closes + ChannelCloses(chan)
       ELSE UNCHANGED <<chan, closes>>
    /\ UNCHANGED <<pc, endpoints, idx, opened, hooks, registered, features,
                   pingSent, requests, calls, acks, pingExc, raised, conn,
                   closeCalls, env, enumBy, openedBy>>

\* lines 110-128: sign() on the connection connect() returned; the identity
\* message is built before sign_identity is called
Sign ==
    /\ HasSession
    /\ Transport' = DefsTransport(env)
    /\ \E identity \in Identities :
         LET proto == identity_proto(identity)
         IN  IF proto.raised # None
             THEN opResult' = Op(Raised("sign", NoReply, proto.raised, <<>>),
                                 identity, {}, FALSE)
             ELSE \E reply \in SessionReplies(chan) :
                     opResult' = Op(sign(reply), identity, proto.message,
                                    SessionSends(chan))
    /\ UNCHANGED <<connVars, closeCalls, env, enumBy, openedBy>>

\* lines 130-147: ecdh() on the connection connect() returned; the identity
\* message is built before get_ecdh_session_key is called
Ecdh ==
    /\ HasSession
    /\ Transport' = DefsTransport(env)
    /\ \E identity \in Identities :
         LET proto == identity_proto(identity)
         IN  IF proto.raised # None
             THEN opResult' = Op(Raised("ecdh", NoReply, proto.raised, <<>>),
                                 identity, {}, FALSE)
             ELSE \E reply \in SessionReplies(chan) :
                     opResult' = Op(ecdh(reply), identity, proto.message,
                                    SessionSends(chan))
    /\ UNCHANGED <<connVars, closeCalls, env, enumBy, openedBy>>

\* connect(), with the environment changing under it
Next ==
    \/ SetEnv
    \/ Enumerate
    \/ ForLoop
    \/ OpenTransport
    \/ NewClient
    \/ RegisterCallbacks
    \/ ReadFeatures
    \/ VersionGate
    \/ PingStart
    \/ DeviceRequest
    \/ PingAnswered
    \/ PingFailed
    \/ Return

Spec == Init /\ [][Next]_vars

\* line 86: the states in which connect() returns a connection, for a
\* device with firmware 1.4.x that asked for neither PIN nor passphrase and
\* an environment that did not change during connect()
OpInit ==
    /\ pc = "ready"
    /\ endpoints \in EndpointLists \ {<<>>}
    /\ idx = 1
    /\ opened = <<endpoints[1]>>
    /\ chan = "open"
    /\ closes = 0
    /\ \E isatty \in BOOLEAN :
          hooks = [ClientDefaults EXCEPT
                     !["PassphraseRequest"] = "passphrase_handler",
                     !["PinMatrixRequest"] = create_pin_handler(isatty)]
    /\ registered = Slots
    /\ features \in {f \in Features :
                         /\ SemverMatch(FormatVersion(f), required_version)
                         /\ f.major = 1
                         /\ f.minor = 4}
    /\ pingSent = TRUE
    /\ requests = <<>>
    /\ calls = <<>>
    /\ acks = <<>>
    /\ pingExc = NoExc
    /\ raised = NoExc
    /\ conn = "connection"
    /\ opResult = NoOp
    /\ closeCalls = 0
    /\ env \in EnvValues
    /\ Transport = DefsTransport(env)
    /\ enumBy = Transport
    /\ openedBy = Transport

\* the operations on a connection, in any order
OpNext ==
    \/ Pubkey
    \/ Sign
    \/ Ecdh
    \/ Close

OpSpec == OpInit /\ [][OpNext]_vars

\* ================================================================ claims

\* connect() has ended by raising
ConnectFailed == pc = "done" /\ raised # NoExc

\* C1: whenever connect() fails after the channel to the first endpoint was
\* opened (features, version gate or unlock ping), the channel is closed by
\* the time the error reaches the caller: no failed connect() leaves a
\* channel open.
C1_FailedConnectLeavesNoOpenChannel ==
    ConnectFailed => chan # "open"

C3_OnlyFirstEndpointTried ==
    /\ idx <= 1
    /\ Len(opened) <= 1
    /\ \A i \in DOMAIN opened : opened[i] = endpoints[1]
    /\ (pc = "done" /\ Len(opened) = 1) => raised # NoExc

\* the open of the first of two endpoints failed and connect() raised
C3_Witness ==
    /\ pc = "done"
    /\ Len(endpoints) = 2
    /\ opened = <<endpoints[1]>>
    /\ raised.cls = "IOError"

\* C4: against an empty enumeration connect() raises NotFoundError without
\* opening a channel, fetching features or invoking a callback.
C4_EmptyEnumerationNotFound ==
    (pc # "start" /\ endpoints = <<>>) =>
        /\ pc \in {"for", "done"}
        /\ (pc = "done" => raised.cls = "NotFoundError")
        /\ opened = <<>>
        /\ chan = "none"
        /\ features = NoFeatures
        /\ registered = {}
        /\ ~pingSent
        /\ calls = <<>>
        /\ conn = None

\* connect() ended on an empty enumeration
C4_Witness ==
    /\ pc = "done"
    /\ endpoints = <<>>
    /\ raised.cls = "NotFoundError"

\* (major, minor, patch) >= (1, 4, 0) in lexicographic order
AtLeast140(f) ==
    \/ f.major > 1
    \/ f.major = 1 /\ f.minor > 4
    \/ f.major = 1 /\ f.minor = 4 /\ f.patch >= 0

\* C5: the version gate passes exactly when the device's version triple is
\* lexicographically >= (1, 4, 0); when it does not pass, connect() raises the
\* error naming the required range and the current version, sends no unlock
\* ping, tries nothing further and returns no session.
C5_VersionGate ==
    (features # NoFeatures /\ pc # "gate") =>
        IF AtLeast140(features)
        THEN raised.cls # "ValueError" /\ (pc = "ping" \/ pingSent)
        ELSE /\ pc = "done"
             /\ raised.cls = "ValueError"
             /\ raised.required = <<">", "=", "1", ".", "4", ".", "0">>
             /\ SemverParse(raised.current) = features
             /\ ~pingSent
             /\ requests = <<>>
             /\ idx = 1
             /\ conn = None
             /\ opResult = NoOp

\* firmware 1.3.1 was refused by the gate
C5_Witness ==
    /\ pc = "done"
    /\ features = [major |-> 1, minor |-> 3, patch |-> 1]
    /\ raised.cls = "ValueError"

\* the handlers connect() assigns to the slot of a request type
HandlersFor(type) ==
    IF type = "PassphraseRequest"
    THEN {"passphrase_handler"}
    ELSE {"callback_PinMatrixRequest", "qt_handler"}

\* the Ack a request type expects
AckFor(type) ==
    IF type = "PassphraseRequest" THEN "PassphraseAck" ELSE "PinMatrixAck"

\* C6: during unlock every PinMatrixRequest or PassphraseRequest of the
\* device is answered by a call of the handler connect() registered for that
\* type, in the order of the requests and with the request as context, and
\* its Ack is sent back; only a handler that raised leaves its request
\* unanswered, and the ping returns only after every request was answered.
\* Successive requests carry distinct contexts.
C6_RequestsAnsweredByMatchingHandler ==
    /\ Len(calls) = Len(requests)
    /\ \A i \in DOMAIN requests :
          /\ calls[i].ctx = requests[i]
          /\ calls[i].handler \in HandlersFor(requests[i].type)
    /\ \A i, j \in DOMAIN calls : i # j => calls[i].ctx # calls[j].ctx
    /\ Len(acks) <= Len(calls)
    /\ \A i \in DOMAIN acks :
          /\ acks[i].n = requests[i].n
          /\ acks[i].type = AckFor(requests[i].type)
    /\ Len(acks) < Len(calls) =>
          /\ Len(acks) = Len(calls) - 1
          /\ pc = "done"
          /\ pingExc.cls \in HandlerExcs(calls[Len(calls)].handler)
    /\ pc \in {"return", "ready"} => Len(acks) = Len(requests)

\* an unlock that saw two successive PinMatrixRequests called the PIN handler
\* twice, with two contexts, and then succeeded
C6_Witness ==
    /\ pc = "ready"
    /\ Len(calls) = 2
    /\ calls[1].ctx.type = "PinMatrixRequest"
    /\ calls[2].ctx.type = "PinMatrixRequest"
    /\ calls[1].handler = calls[2].handler
    /\ calls[1].ctx.n < calls[2].ctx.n
    /\ Len(acks) = 2

\* C7: both callback attributes are assigned by connect() before the unlock
\* ping is issued, so no request of the device meets a slot connect() has not
\* set.
C7_HooksRegisteredBeforePing ==
    (pingSent \/ requests # <<>>) =>
        /\ registered = Slots
        /\ hooks["PassphraseRequest"] = "passphrase_handler"
        /\ hooks["PinMatrixRequest"] \in
              {"callback_PinMatrixRequest", "qt_handler"}

\* the device sent a request during the unlock ping
C7_Witness ==
    /\ pc = "unlock"
    /\ pingSent
    /\ Len(requests) >= 1
    /\ registered = Slots

\* the reply of the last operation is a response carrying these bytes
ResponseTo(op) ==
    opResult.op = op /\ opResult.reply.type = "response"

\* C8: sign, given a 65-byte signature starting with 0x00, returns its last
\* 64 bytes and changes nothing else.
C8_SignReturnsLast64 ==
    (/\ ResponseTo("sign")
     /\ Len(opResult.reply.data) = 65
     /\ opResult.reply.data[1] = 0) =>
        /\ opResult.kind = "return"
        /\ Len(opResult.value) = 64
        /\ \A i \in 1..64 : opResult.value[i] = opResult.reply.data[i + 1]

\* sign returned for a 65-byte signature starting with 0x00
C8_Witness ==
    /\ ResponseTo("sign")
    /\ Len(opResult.reply.data) = 65
    /\ opResult.reply.data[1] = 0
    /\ opResult.kind = "return"

\* C9: sign, given a signature of a length other than 65 or with a first byte
\* other than 0x00, raises the consistency error (AssertionError), not
\* DeviceError, and returns no value.
C9_SignRejectsBadShape ==
    (/\ ResponseTo("sign")
     /\ \/ Len(opResult.reply.data) # 65
        \/ opResult.reply.data[1] # 0) =>
        /\ opResult.kind = "raise"
        /\ opResult.cls = "AssertionError"
        /\ opResult.value = <<>>

\* sign raised for a 65-byte signature starting with 0x01
C9_Witness ==
    /\ ResponseTo("sign")
    /\ Len(opResult.reply.data) = 65
    /\ opResult.reply.data[1] = 1
    /\ opResult.cls = "AssertionError"

C11_Ecdh65ByteKey ==
    ResponseTo("ecdh") =>
        LET key == opResult.reply.data
        IN  IF Len(key) = 65 /\ key[1] = 4
            THEN /\ opResult.kind = "return"
                 /\ Len(opResult.value) = 65
                 /\ opResult.value = key
            ELSE (Len(key) = 65 \/ Len(key) \notin {33, 65}) =>
                    /\ opResult.kind = "raise"
                    /\ opResult.cls = "AssertionError"
                    /\ opResult.value = <<>>

\* ecdh returned a 65-byte session key starting with 0x04
C11_Witness ==
    /\ ResponseTo("ecdh")
    /\ Len(opResult.reply.data) = 65
    /\ opResult.reply.data[1] = 4
    /\ opResult.kind = "return"
    /\ opResult.value[1] = 4

\* C12: a device fault (CallException) during sign or ecdh reaches the caller
\* as DeviceError whose message carries the device and the fault message,
\* never as CallException.
C12_FaultWrappedAsDeviceError ==
    (/\ opResult.op \in {"sign", "ecdh"}
     /\ opResult.reply.type = "CallException") =>
        /\ opResult.kind = "raise"
        /\ opResult.cls = "DeviceError"
        /\ Len(opResult.msg) = 3
        /\ opResult.msg[1] = "Trezor"
        /\ opResult.msg[3] = opResult.reply.msg
        /\ opResult.value = <<>>

\* sign met a device fault and raised DeviceError
C12_Witness ==
    /\ opResult.op = "sign"
    /\ opResult.reply.type = "CallException"
    /\ opResult.reply.msg = "cancelled"
    /\ opResult.cls = "DeviceError"

\* C13: close() may be called twice: no call of close() raises, the session
\* is closed afterwards and the channel has been closed exactly once.
C13_CloseIdempotent ==
    /\ closes <= 1
    /\ opResult.op = "close" =>
          /\ opResult.kind = "return"
          /\ pc = "closed"
          /\ chan = "closed"
          /\ closes = 1

\* close() has returned for the second time
C13_Witness ==
    /\ closeCalls = 2
    /\ opResult.op = "close"
    /\ opResult.kind = "return"
    /\ chan = "closed"
    /\ closes = 1

\* C14: after close(), pubkey, sign and ecdh fail with ClosedSessionError and
\* send no request to the device.
C14_ClosedSessionRejectsOperations ==
    (pc = "closed" /\ opResult.op \in {"pubkey", "sign", "ecdh"}) =>
        /\ opResult.kind = "raise"
        /\ opResult.cls = "ClosedSessionError"
        /\ ~opResult.sent

\* C15: the transport that opens an endpoint is the transport that enumerated
\* it, also when TREZOR_TRANSPORT changes between the two accesses.
C15_OpenedByEnumeratingTransport ==
    openedBy # None => openedBy = enumBy

\* C16: pubkey returns the public-key bytes of the response unmodified,
\* whatever their length and first byte.
C16_PubkeyUnmodified ==
    ResponseTo("pubkey") =>
        /\ opResult.kind = "return"
        /\ opResult.value = opResult.reply.data

\* pubkey returned 64 bytes starting with 0x01 as they came
C16_Witness ==
    /\ ResponseTo("pubkey")
    /\ Len(opResult.reply.data) = 64
    /\ opResult.reply.data[1] = 1
    /\ opResult.kind = "return"
    /\ Len(opResult.value) = 64

\* C17: in the Ready state pubkey, sign and ecdh leave the session as it was
\* (Ready, the same open channel, the same callbacks, no new handshake or
\* unlock), whether they return or raise.
C17_OperationsKeepSession ==
    [][(pc = "ready" /\ opResult'.op \in {"pubkey", "sign", "ecdh"}) =>
          /\ pc' = "ready"
          /\ UNCHANGED <<chan, closes, closeCalls, hooks, registered, conn,
                         opened, features, pingSent, requests, calls, acks,
                         raised>>]_vars

\* sign raised the consistency error and the session is still Ready and open
C17_Witness ==
    /\ pc = "ready"
    /\ opResult.op = "sign"
    /\ opResult.cls = "AssertionError"
    /\ chan = "open"
    /\ closes = 0

\* the field names of an identity
FieldNames(identity) == {item[1] : item \in identity}

\* C18: sign and ecdh called with an identity that has a field the identity
\* message does not know are rejected with ProtocolError before a request is
\* sent; otherwise every field of the identity is set on the outgoing message
\* with its value.
C18_UnknownFieldRejected ==
    opResult.op \in {"sign", "ecdh"} =>
        IF FieldNames(opResult.identity) \subseteq
              {"proto", "user", "host", "port", "path"}
        THEN opResult.message = opResult.identity
        ELSE /\ opResult.kind = "raise"
             /\ opResult.cls = "ProtocolError"
             /\ ~opResult.sent
             /\ opResult.reply = NoReply

\* sign was rejected for an identity with the field "comment"
C18_Witness ==
    /\ opResult.op = "sign"
    /\ "comment" \in FieldNames(opResult.identity)
    /\ opResult.cls = "ProtocolError"
    /\ ~opResult.sent

\* C19: connect() returns a connection only after, in this order, the
\* callbacks were registered, the features fetched, the version gate passed
\* and the unlock ping completed without exception; the returned connection
\* is version-compatible and unlocked, with exactly one channel, to the first
\* endpoint, open.
C19_ReturnsOnlyAfterFullSequence ==
    /\ features # NoFeatures => registered = Slots
    /\ (pc = "ping" \/ pingSent) =>
          features # NoFeatures /\ AtLeast140(features)
    /\ pc \in {"return", "ready"} => pingSent /\ pingExc = NoExc
    /\ conn # None =>
          /\ pc = "ready"
          /\ registered = Slots
          /\ AtLeast140(features)
          /\ pingSent
          /\ pingExc = NoExc
          /\ raised = NoExc
          /\ Len(acks) = Len(requests)
          /\ chan = "open"
          /\ closes = 0
          /\ opened = <<endpoints[1]>>

\* connect() returned a connection to the first of two endpoints
C19_Witness ==
    /\ conn = "connection"
    /\ pc = "ready"
    /\ Len(endpoints) = 2
    /\ opened = <<"hid0">>
    /\ features = [major |-> 1, minor |-> 4, patch |-> 0]
    /\ requests = <<>>
    /\ chan = "open"

\* C20: pubkey does not wrap a device fault: CallException reaches the
\* caller as it was raised, and pubkey never raises DeviceError.
C20_PubkeyPropagatesRawFault ==
    opResult.op = "pubkey" =>
        /\ opResult.cls # "DeviceError"
        /\ opResult.reply.type = "CallException" =>
              /\ opResult.kind = "raise"
              /\ opResult.cls = "CallException"

\* pubkey met a device fault and raised CallException
C20_Witness ==
    /\ opResult.op = "pubkey"
    /\ opResult.reply.type = "CallException"
    /\ opResult.cls = "CallException"

====
